---- MODULE Spec2Model ----
(***************************************************************************)
(* WebPA group-contribution scoring of webpamanager.py: the three          *)
(* response adapters (spreadsheet forms, classic quizzes, new quizzes),    *)
(* the aggregation of the response summary and the mark resolution.        *)
(*                                                                         *)
(* Numbers.  Python floats are modelled by exact rationals [n, d] in       *)
(* lowest terms (d > 0).  A raw spreadsheet/quiz rating is a value in      *)
(* halves: h stands for h/2, so that 5 is the float 2.5 and 6 the int 3.   *)
(* The 'Variance' column (a standard deviation) is carried by its square.  *)
(***************************************************************************)
EXTENDS Integers, Sequences, FiniteSets, TLC

VARIABLES
    groups,             \* roster: group number -> sequence of student numbers
    adapter,            \* "sheet" | "quiz" | "newquiz": which get_* runs
    pc,                 \* "marks" | "mapped" (the marks file), "load" | "crashed"
                        \* (uncaught exception) | "exit" (sys.exit),
                        \* then "loaded" | "aggregated" | "joined" | "resolved" | "saved"
    quiz,               \* group of the quiz being read (0: none), quiz adapters
    seen,               \* groups whose quiz has been read
    listed,             \* names met so far in the listing (files; raters of the quiz)
    phase,              \* get_new_quizzes: "scan" of the submission list, then "sessions"
    user_session_map,   \* get_new_quizzes: submissions kept by the scan, in order
    current,            \* get_new_quizzes: current_responses, current_errors, ... of the quiz
    summary_sheet,      \* response summary rows [Rater, Subject, Rating, Normalised, Group]
    respondents,        \* accepted raters, in order
    invalid,            \* skipped/rejected raters, in order
    errors,             \* rater -> messages of its submission
    nsubs,              \* submissions handled so far in the run
    args,               \* minimum_variance, mark_rounding, maximum_mark of the command line
    marks_map,          \* student number or group name -> original mark
    response_data,      \* the calculation table, one row per (Group, Subject)
    last,               \* history: what the last step did with its submission
    twin,               \* history: get_quizzes on the same submissions (new-quiz runs)
    marks_file          \* get_marks_mapping: the rows of the marks file still to be parsed

vars == <<groups, adapter, pc, quiz, seen, listed, phase, user_session_map, current, summary_sheet,
          respondents, invalid, errors, nsubs, args, marks_map, response_data, last, twin,
          marks_file>>

\* what the response adapters leave alone
report == <<args, marks_map, response_data, marks_file>>

----------------------------------------------------------------------------
(* Bounds of the model *)
MaxSubs == 2

----------------------------------------------------------------------------
(* Rationals *)
Abs(x) == IF x < 0 THEN -x ELSE x

RECURSIVE Gcd(_, _)
Gcd(a, b) == IF b = 0 THEN a ELSE Gcd(b, a % b)

Rat(n, d) ==
    LET g == Gcd(Abs(n), Abs(d))
        s == IF d < 0 THEN -1 ELSE 1
    IN  [n |-> (s * n) \div g, d |-> (s * d) \div g]

RInt(k) == [n |-> k, d |-> 1]
RAdd(a, b) == Rat(a.n * b.d + b.n * a.d, a.d * b.d)
RSub(a, b) == Rat(a.n * b.d - b.n * a.d, a.d * b.d)
RMul(a, b) == Rat(a.n * b.n, a.d * b.d)
RDiv(a, b) == Rat(a.n * b.d, a.d * b.n)
RLt(a, b) == a.n * b.d < b.n * a.d
RLe(a, b) == a.n * b.d <= b.n * a.d
\* x <= 1/k for a rational x >= 0, without the product x.n * k
RWithin(x, k) == x.n = 0 \/ x.d \div x.n >= k

----------------------------------------------------------------------------
(* Sequence helpers *)
RECURSIVE SeqToSet(_)
SeqToSet(s) == IF s = <<>> THEN {} ELSE {Head(s)} \cup SeqToSet(Tail(s))

Count(s, x) == Cardinality({i \in DOMAIN s : s[i] = x})

\* sorted(a) = sorted(b) for two lists of strings: same multiset
SameSorted(a, b) == \A x \in SeqToSet(a) \cup SeqToSet(b) : Count(a, x) = Count(b, x)

----------------------------------------------------------------------------
(* Roster *)
Roster == (1 :> <<"11", "12">>) @@ (2 :> <<"21">>)

expected_submissions == UNION {SeqToSet(groups[g]) : g \in DOMAIN groups}

----------------------------------------------------------------------------
(* Raw cell values and the bounding of a rating *)
NoneCell == [t |-> "none", h |-> 0]
JunkCell == [t |-> "str", h |-> 0]
Num(h) == [t |-> "num", h |-> h]

\* Python's round() of h/2: ties go to the even integer
PyRound(h) ==
    IF h % 2 = 0 THEN h \div 2
    ELSE LET k == (h - 1) \div 2 IN IF k % 2 = 0 THEN k ELSE k + 1

Min(a, b) == IF a < b THEN a ELSE b
Max(a, b) == IF a > b THEN a ELSE b

\* round(max(min(x, 5), 1)), x = h/2
\* a variant that lets the rating 0 through: the range 0..5
bounded_from_zero(h) == PyRound(Max(Min(h, 10), 0))

bounded_score(h) == PyRound(Max(Min(h, 10), 2))

Msg(m, who) == [msg |-> m, arg |-> who]

AddOnce(errs, m) == IF \E i \in DOMAIN errs : errs[i] = m THEN errs ELSE Append(errs, m)

SetErrors(errs, rater, current_errors) ==
    IF current_errors = <<>> THEN errs
    ELSE [r \in DOMAIN errs \cup {rater} |-> IF r = rater THEN current_errors ELSE errs[r]]

\* response[3] = response[2] / current_total, for every collected response
\* a variant that divides by the top of the scale in the place of the rater's total
RECURSIVE NormaliseByScale(_, _, _)
NormaliseByScale(responses, rater, total) ==
    IF responses = <<>> THEN <<>>
    ELSE <<[Rater |-> IF Head(responses).Rater = "" THEN rater ELSE Head(responses).Rater,
            Subject |-> Head(responses).Subject,
            Rating |-> Head(responses).Rating,
            Normalised |-> Rat(Head(responses).Rating, 5),
            Group |-> Head(responses).Group]>>
         \o NormaliseByScale(Tail(responses), rater, total)

RECURSIVE Normalise(_, _, _)
Normalise(responses, rater, total) ==
    IF responses = <<>> THEN <<>>
    ELSE <<[Rater |-> IF Head(responses).Rater = "" THEN rater ELSE Head(responses).Rater,
            Subject |-> Head(responses).Subject,
            Rating |-> Head(responses).Rating,
            Normalised |-> Rat(Head(responses).Rating, total),
            Group |-> Head(responses).Group]>>
         \o Normalise(Tail(responses), rater, total)

\* a collation that leaves out the test of the invalid flag
CollateAll(responses, rater, total, is_invalid) ==
    IF total = 0 THEN <<>> ELSE Normalise(responses, rater, total)

\* "if not invalid: normalise every response and append it to the summary sheet"
Collate(responses, rater, total, is_invalid) ==
    IF is_invalid THEN <<>> ELSE Normalise(responses, rater, total)

\* found members against valid members: the common tail of the three adapters
MembershipErrors(current_errors, found_members, valid_members) ==
    LET missing == SeqToSet(valid_members) \ SeqToSet(found_members)
        added == SeqToSet(found_members) \ SeqToSet(valid_members)
        e1 == IF missing # {} THEN Append(current_errors, Msg("Group member(s) missing", missing))
              ELSE current_errors
    IN  IF SameSorted(found_members, valid_members) THEN current_errors
        ELSE IF added # {} THEN Append(e1, Msg("Non-group member(s) found", added)) ELSE e1

MembersMissing(found_members, valid_members) ==
    /\ ~SameSorted(found_members, valid_members)
    /\ SeqToSet(valid_members) \ SeqToSet(found_members) # {}

----------------------------------------------------------------------------
(* get_spreadsheets: one response file *)
SheetFresh ==
    [current_group |-> 0, valid_members |-> <<>>, current_rater |-> "",
     current_responses |-> <<>>, current_errors |-> <<>>, current_total |-> 0,
     found_members |-> <<>>, invalid_file |-> FALSE, crashed |-> FALSE]

\* one data row after the header row
SheetRow(acc, cells, expected_rater) ==
    IF acc.crashed \/ cells.num = "" THEN acc
    ELSE IF acc.current_group = 0 /\ cells.grp \notin DOMAIN groups
    THEN [acc EXCEPT !.crashed = TRUE]    \* groups[current_group]: KeyError
    ELSE
    LET current_group == IF acc.current_group = 0 THEN cells.grp ELSE acc.current_group
        valid_members == IF acc.current_group = 0 THEN groups[cells.grp] ELSE acc.valid_members
        marked_ok == cells.me /\ acc.current_rater = "" /\ cells.num = expected_rater
        marked_bad == cells.me /\ ~marked_ok
        current_rater == IF marked_ok THEN cells.num ELSE acc.current_rater
        e1 == IF marked_bad
              THEN AddOnce(acc.current_errors, Msg("Incorrect or multiple respondents selected", {}))
              ELSE acc.current_errors
        ignored_rating == cells.num \notin SeqToSet(valid_members)
        bad_group == cells.grp # current_group
        e2 == IF bad_group THEN Append(e1, Msg("Invalid group number", {})) ELSE e1
        bad_rating == cells.rating.t # "num"
        e3 == IF bad_rating
              THEN Append(e2, Msg((IF cells.num = current_rater THEN "Own" ELSE "Member")
                                   \o (IF cells.rating.t = "str" THEN " rating invalid"
                                       ELSE " rating missing"), {cells.num}))
              ELSE e2
        invalid_file == acc.invalid_file \/ marked_bad \/ bad_group \/ bad_rating
        b == bounded_score(cells.rating.h)
        e4 == IF 2 * b # cells.rating.h
              THEN Append(e3, Msg("Rating is outside of range 1-5", {cells.num}))
              ELSE e3
    IN  IF invalid_file \/ ignored_rating
        THEN [acc EXCEPT !.current_group = current_group, !.valid_members = valid_members,
                         !.current_rater = current_rater, !.current_errors = e3,
                         !.found_members = Append(@, cells.num), !.invalid_file = invalid_file]
        ELSE [acc EXCEPT !.current_group = current_group, !.valid_members = valid_members,
                         !.current_rater = current_rater, !.current_errors = e4,
                         !.found_members = Append(@, cells.num),
                         !.current_responses = Append(@, [Rater |-> "", Subject |-> cells.num,
                                                          Rating |-> b, Group |-> current_group]),
                         !.current_total = @ + b]

RECURSIVE SheetRows(_, _, _)
SheetRows(acc, rows, expected_rater) ==
    IF rows = <<>> THEN acc
    ELSE SheetRows(SheetRow(acc, Head(rows), expected_rater), Tail(rows), expected_rater)

\* a variant of the checks that lets a form without a respondent through
SheetFinishUnsigned(acc, found_header_row) ==
    LET e1 == IF acc.current_group # 0
              THEN MembershipErrors(acc.current_errors, acc.found_members, acc.valid_members)
              ELSE acc.current_errors
        missing == acc.current_group # 0 /\ MembersMissing(acc.found_members, acc.valid_members)
    IN  [acc EXCEPT !.current_errors = e1,
                    !.invalid_file = acc.invalid_file \/ missing \/ ~found_header_row]

\* the checks after the rows of one file
SheetFinish(acc, found_header_row) ==
    LET e1 == IF acc.current_group # 0
              THEN MembershipErrors(acc.current_errors, acc.found_members, acc.valid_members)
              ELSE acc.current_errors
        missing == acc.current_group # 0 /\ MembersMissing(acc.found_members, acc.valid_members)
        e2 == IF acc.current_rater # "" THEN e1
              ELSE IF ~found_header_row
              THEN Append(e1, Msg("Incorrect (or edited example) rating form has been used", {}))
              ELSE Append(e1, Msg("Own name indicator missing", {}))
    IN  [acc EXCEPT !.current_errors = e2,
                    !.invalid_file = acc.invalid_file \/ missing \/ acc.current_rater = ""]

\* the whole of one file: the accumulators when the loop body ends
SheetFile(file) ==
    SheetFinish(SheetRows(SheetFresh, IF file.header THEN file.rows ELSE <<>>, file.owner),
                file.header)

----------------------------------------------------------------------------
(* get_quizzes: one submission of a classic quiz *)

\* float(answer_value): the answer texts of the model and what float() makes of them
FloatOf(text) ==
    CASE text = "0" -> Num(0)
      [] text = "1" -> Num(2)
      [] text = "2" -> Num(4)
      [] text = "2.5" -> Num(5)
      [] text = "3" -> Num(6)
      [] text = "5" -> Num(10)
      [] text = "6" -> Num(12)
      [] text = "" -> NoneCell        \* ValueError, reported as missing
      [] OTHER -> JunkCell            \* ValueError, reported as invalid

Fresh ==
    [current_responses |-> <<>>, current_errors |-> <<>>, current_total |-> 0,
     found_members |-> <<>>, invalid_response |-> FALSE, exited |-> FALSE]

\* one answer to a rating question
QuizAnswer(acc, answer, current_rater, current_group, valid_members) ==
    LET rated_student == answer.subject
        found == Append(acc.found_members, rated_student)
        original_score == FloatOf(answer.text)
        b == bounded_score(original_score.h)
    IN  IF rated_student \notin SeqToSet(valid_members)
        THEN [acc EXCEPT !.found_members = found]
        ELSE IF original_score.t = "num"
        THEN [acc EXCEPT !.found_members = found,
                         !.current_errors =
                             IF 2 * b # original_score.h
                             THEN Append(@, Msg("Rating is outside of range 1-5", {rated_student}))
                             ELSE @,
                         !.current_responses =
                             Append(@, [Rater |-> current_rater, Subject |-> rated_student,
                                        Rating |-> b, Group |-> current_group]),
                         !.current_total = @ + b]
        ELSE [acc EXCEPT !.found_members = found,
                         !.current_errors =
                             Append(@, Msg((IF rated_student = current_rater THEN "Own" ELSE "Member")
                                            \o (IF original_score.t = "str" THEN " rating invalid"
                                                ELSE " rating missing"), {rated_student})),
                         !.invalid_response = TRUE]

RECURSIVE QuizAnswers(_, _, _, _, _)
QuizAnswers(acc, answers, current_rater, current_group, valid_members) ==
    IF answers = <<>> THEN acc
    ELSE QuizAnswers(QuizAnswer(acc, Head(answers), current_rater, current_group, valid_members),
                     Tail(answers), current_rater, current_group, valid_members)

\* the membership check that closes a quiz submission (classic and new)
QuizFinish(acc, current_group, valid_members) ==
    [acc EXCEPT !.current_errors =
                    IF current_group # 0 THEN MembershipErrors(@, acc.found_members, valid_members)
                    ELSE @,
                !.invalid_response =
                    @ \/ (current_group # 0 /\ MembersMissing(acc.found_members, valid_members))]

QuizSubmission(acc, sub, current_group) ==
    QuizFinish(QuizAnswers(acc, sub.answers, sub.rater, current_group, groups[current_group]),
               current_group, groups[current_group])

\* a variant of the checks that knows the due date of the quiz only
SkippedByQuizDate(sub, current_group) ==
    IF sub.rater \notin expected_submissions THEN "not in any group"
    ELSE IF sub.rater \notin SeqToSet(groups[current_group]) THEN "not in current group"
    ELSE IF sub.workflow_state \notin {"complete", "graded", "pending_review"} THEN "incomplete"
    ELSE IF sub.due_at # 0 /\ sub.submitted_at > sub.due_at THEN "late"
    ELSE ""

\* the checks made on a submission before its answers are read; "" when it passes
Skipped(sub, current_group) ==
    IF sub.rater \notin expected_submissions THEN "not in any group"
    ELSE IF sub.rater \notin SeqToSet(groups[current_group]) THEN "not in current group"
    ELSE IF sub.workflow_state \notin {"complete", "graded", "pending_review"} THEN "incomplete"
    ELSE IF (IF sub.due_at # 0 THEN sub.due_at ELSE sub.cached_due_date) # 0
            /\ sub.submitted_at > (IF sub.due_at # 0 THEN sub.due_at ELSE sub.cached_due_date)
    THEN "late"
    ELSE ""

----------------------------------------------------------------------------
(* get_new_quizzes: one session of a new quiz *)

\* int(re.sub(html_regex, '', choice['item_body'].split(':')[0])); -1: ValueError
ChoiceInt(item_body) ==
    CASE item_body = "<p><b>0</b>: none</p>" -> 0
      [] item_body = "<p><b>1</b>: poor</p>" -> 1
      [] item_body = "<p><b>3</b>: fair</p>" -> 3
      [] item_body = "<p><b>5</b>: great</p>" -> 5
      [] item_body = "<p><b>7</b>: superb</p>" -> 7
      [] OTHER -> -1

\* one result of a rating item; answer.text is the body of the choice the
\* respondent picked, "" when no choice carries user_responded
NewQuizAnswer(acc, answer, current_rater, current_group, valid_members) ==
    LET rated_student == answer.subject
        found == Append(acc.found_members, rated_student)
        score == ChoiceInt(answer.text)
        missing == [acc EXCEPT !.found_members = found,
                               !.current_errors = Append(@, Msg("Member rating missing", {rated_student})),
                               !.invalid_response = TRUE]
    IN  IF acc.exited THEN acc
        ELSE IF rated_student \notin SeqToSet(valid_members)
        THEN [acc EXCEPT !.found_members = found]
        ELSE IF answer.text = "" THEN missing
        ELSE IF score = -1 THEN [acc EXCEPT !.found_members = found, !.exited = TRUE]
        ELSE LET appended ==
                    [acc EXCEPT !.found_members = found,
                                !.current_responses =
                                    Append(@, [Rater |-> current_rater, Subject |-> rated_student,
                                               Rating |-> score, Group |-> current_group]),
                                !.current_total = @ + score]
             IN  IF score = 0
                 THEN [appended EXCEPT
                          !.current_errors = Append(@, Msg("Member rating missing", {rated_student})),
                          !.invalid_response = TRUE]
                 ELSE appended

RECURSIVE NewQuizAnswers(_, _, _, _, _)
NewQuizAnswers(acc, answers, current_rater, current_group, valid_members) ==
    IF answers = <<>> THEN acc
    ELSE NewQuizAnswers(NewQuizAnswer(acc, Head(answers), current_rater, current_group, valid_members),
                        Tail(answers), current_rater, current_group, valid_members)

NewQuizSubmission(acc, sub, current_group) ==
    QuizFinish(NewQuizAnswers(acc, sub.answers, sub.rater, current_group, groups[current_group]),
               current_group, groups[current_group])

----------------------------------------------------------------------------
(* Inputs: the response forms.  A form is the personalised template that   *)
(* setup_spreadsheets writes for its owner (or the generic form of a       *)
(* group), filled in with ratings, with at most one departure from it.     *)
Students == {"11", "12", "21"}
Owners == Students \cup {"99"}
Fill == {Num(6)}
Odd == {NoneCell, JunkCell, Num(0), Num(5), Num(12)}
GroupCells == {1, 2, 3}

\* setup_spreadsheets: one row per member of the group, the owner's row marked
Template(g, owner, fill) ==
    [i \in 1..Len(Roster[g]) |->
        [me |-> Roster[g][i] = owner, num |-> Roster[g][i], rating |-> fill[i], grp |-> g]]

RemoveAt(s, i) == [j \in 1..(Len(s) - 1) |-> IF j < i THEN s[j] ELSE s[j + 1]]

Departures(rows, g) ==
    {rows}
    \cup {[rows EXCEPT ![i].rating = v] : i \in DOMAIN rows, v \in Odd}
    \cup {[rows EXCEPT ![i].me = ~@] : i \in DOMAIN rows}
    \cup {[rows EXCEPT ![i].grp = c] : i \in DOMAIN rows, c \in GroupCells \ {g}}
    \cup {RemoveAt(rows, i) : i \in DOMAIN rows}
    \cup {Append(rows, [rows[i] EXCEPT !.me = FALSE]) : i \in DOMAIN rows}
    \cup {Append(rows, [me |-> m, num |-> n, rating |-> v, grp |-> g]) :
            m \in BOOLEAN, n \in Students \ SeqToSet(Roster[g]), v \in Odd \cup {Num(6)}}
    \cup {Append(rows, [me |-> m, num |-> "", rating |-> v, grp |-> g]) :
            m \in BOOLEAN, v \in {NoneCell, Num(6)}}

GroupOf(student) == CHOOSE g \in DOMAIN Roster : student \in SeqToSet(Roster[g])

OwnForms(owner) ==
    LET g == GroupOf(owner)
    IN  UNION {Departures(Template(g, owner, fill), g) : fill \in [1..Len(Roster[g]) -> Fill]}

\* the form of another group, filled in, with a marked row of the owner added
ForeignForms(owner) ==
    {Append(Template(g, "", [i \in 1..Len(Roster[g]) |-> Num(6)]),
            [me |-> TRUE, num |-> owner, rating |-> Num(6), grp |-> g]) :
        g \in DOMAIN Roster \ {GroupOf(owner)}}

Forms ==
    UNION {{[owner |-> o, header |-> TRUE, rows |-> r] : r \in OwnForms(o) \cup ForeignForms(o)}
           \cup {[owner |-> o, header |-> FALSE, rows |-> <<>>]} : o \in Students}
    \cup {[owner |-> "99", header |-> TRUE, rows |-> <<>>]}

----------------------------------------------------------------------------
(* Inputs: the quiz submissions.  A submission answers one rating question *)
(* per member of the quiz's group (setup_quizzes, setup_new_quizzes), with *)
(* at most one departure: an odd answer, a question more or less (the      *)
(* group changed after the quiz was made), another submitter, state, date. *)
FillText(a) == IF a = "quiz" THEN "3" ELSE "<p><b>3</b>: fair</p>"
OddTexts(a) ==
    IF a = "quiz" THEN {"", "x", "0", "1", "2.5", "5", "6"}
    ELSE {"", "<p>fair</p>", "<p><b>0</b>: none</p>", "<p><b>1</b>: poor</p>",
          "<p><b>5</b>: great</p>", "<p><b>7</b>: superb</p>"}

QuizTemplate(g, rater, a) ==
    [rater |-> rater, workflow_state |-> "complete", submitted_at |-> 1, due_at |-> 1,
     cached_due_date |-> 1, history |-> TRUE,
     answers |-> [i \in 1..Len(Roster[g]) |-> [subject |-> Roster[g][i], text |-> FillText(a)]]]

AnswerDepartures(answers, g, a) ==
    {[answers EXCEPT ![i].text = v] : i \in DOMAIN answers, v \in OddTexts(a)}
    \cup {RemoveAt(answers, i) : i \in DOMAIN answers}
    \cup {Append(answers, answers[i]) : i \in DOMAIN answers}
    \cup {Append(answers, [subject |-> n, text |-> v]) :
            n \in Students \ SeqToSet(Roster[g]), v \in OddTexts(a) \cup {FillText(a)}}

Submissions(g, a) ==
    LET member == {QuizTemplate(g, r, a) : r \in SeqToSet(Roster[g])}
    IN  {QuizTemplate(g, r, a) : r \in Owners}
        \cup UNION {{[t EXCEPT !.answers = d] : d \in AnswerDepartures(t.answers, g, a)} : t \in member}
        \cup UNION {{[t EXCEPT !.answers = d, !.submitted_at = 2] : d \in AnswerDepartures(t.answers, g, a)} : t \in member}
        \cup {[t EXCEPT !.workflow_state = "untaken"] : t \in member}
        \cup (IF a = "quiz" THEN {[t EXCEPT !.history = FALSE] : t \in member} ELSE {})
        \cup {[t EXCEPT !.submitted_at = 2] : t \in member}
        \cup {[t EXCEPT !.submitted_at = 2, !.due_at = 0] : t \in member}
        \cup {[t EXCEPT !.submitted_at = 2, !.due_at = 0, !.cached_due_date = 0] : t \in member}

\* the classic-quiz answer text of the same rating
ClassicText(text) ==
    CASE text = "" -> ""
      [] ChoiceInt(text) = -1 -> "x"
      [] ChoiceInt(text) = 0 -> "0"
      [] ChoiceInt(text) = 1 -> "1"
      [] ChoiceInt(text) = 3 -> "3"
      [] ChoiceInt(text) = 5 -> "5"
      [] OTHER -> "6"

\* the defaults of get_args
Defaults == [minimum_variance |-> Rat(1, 5), mark_rounding |-> Rat(1, 2), maximum_mark |-> RInt(100)]

Outcome(accepted, rows, errs) == [accepted |-> accepted, rows |-> rows, errs |-> errs]
\* the state and the dates of a submission, and whether its answers are
\* those of the quiz as it was made, each member given the rating 3
NoStamp == [workflow_state |-> "", submitted_at |-> 0, due_at |-> 0, cached_due_date |-> 0, history |-> TRUE]
Stamp(sub) ==
    [workflow_state |-> sub.workflow_state, submitted_at |-> sub.submitted_at, due_at |-> sub.due_at,
     cached_due_date |-> sub.cached_due_date, history |-> sub.history]
Plain(sub, g, a) ==
    sub.answers = [i \in 1..Len(Roster[g]) |-> [subject |-> Roster[g][i], text |-> FillText(a)]]

NoLast == [kind |-> "none", rater |-> "", omitted |-> FALSE, changed |-> {}, accepted |-> FALSE,
           rows |-> <<>>, errs |-> <<>>, alone |-> Outcome(FALSE, <<>>, <<>>),
           extra |-> FALSE, marked |-> <<>>, stamp |-> NoStamp, plain |-> TRUE, quiz |-> 0]
NoTwin == [summary_sheet |-> <<>>, respondents |-> <<>>, invalid |-> <<>>, logical |-> TRUE]

Subjects(answers) == [i \in DOMAIN answers |-> answers[i].subject]

\* the submission as the classic quiz of the same group would hold it
AsClassic(sub) ==
    [sub EXCEPT !.answers = [i \in DOMAIN @ |-> [subject |-> @[i].subject,
                                                 text |-> ClassicText(@[i].text)]]]

\* a rater's map member -> rating 1..5 or unanswered, handed in complete and in time
Logical(sub, g) ==
    /\ Skipped(sub, g) = ""
    /\ Subjects(sub.answers) = groups[g]
    /\ \A i \in DOMAIN sub.answers :
          sub.answers[i].text = "" \/ ChoiceInt(sub.answers[i].text) \in 1..5

Omitted(found_members, valid_members) == SeqToSet(valid_members) \ SeqToSet(found_members) # {}

\* the members whose numeric raw rating is not the rating that bounding stores
Changed(cells, valid_members) ==
    {cells[i].num : i \in {j \in DOMAIN cells :
        /\ cells[j].num \in SeqToSet(valid_members)
        /\ cells[j].rating.t = "num"
        /\ 2 * bounded_score(cells[j].rating.h) # cells[j].rating.h}}

AnswerCells(answers) ==
    [i \in DOMAIN answers |-> [num |-> answers[i].subject, rating |-> FloatOf(answers[i].text)]]

\* the respondent column of a form: the student numbers of the marked rows
RECURSIVE MarkedRows(_)
MarkedRows(rows) ==
    IF rows = <<>> THEN <<>>
    ELSE (IF Head(rows).me THEN <<Head(rows).num>> ELSE <<>>) \o MarkedRows(Tail(rows))

\* the owner's form filled in completely and validly, with one more,
\* unmarked row for a student who is not a member of the owner's group
ExtraForm(file) ==
    /\ file.header /\ file.owner \in Students
    /\ LET g == GroupOf(file.owner)
           n == Len(groups[g])
       IN  /\ Len(file.rows) = n + 1
           /\ SubSeq(file.rows, 1, n) = Template(g, file.owner, [i \in 1..n |-> Num(6)])
           /\ ~file.rows[n + 1].me
           /\ file.rows[n + 1].grp = g
           /\ file.rows[n + 1].num \in Students \ SeqToSet(groups[g])

\* the same for a quiz submission: the answers of the quiz as it was made,
\* and the answer to one more question about a non-member
ExtraAnswers(sub, g, a) ==
    LET n == Len(groups[g])
    IN  /\ sub.rater \in SeqToSet(groups[g])
        /\ Len(sub.answers) = n + 1
        /\ [sub EXCEPT !.answers = SubSeq(@, 1, n)] = QuizTemplate(g, sub.rater, a)
        /\ sub.answers[n + 1].subject \in Students \ SeqToSet(groups[g])

\* the file's name in the listing: re.match(r'\d+\.xlsx?', f) matches a prefix,
\* so that a second file of an owner is its .xlsm next to its .xlsx
FileName(owner) == IF owner \in listed THEN owner \o ".xlsm" ELSE owner

Init ==
    /\ groups = Roster
    /\ adapter \in {"sheet", "quiz", "newquiz"}
    /\ pc = "load"
    /\ quiz = 0
    /\ seen = {}
    /\ listed = {}
    /\ phase = ""
    /\ user_session_map = <<>>
    /\ current = Fresh
    /\ summary_sheet = <<>>
    /\ respondents = <<>>
    /\ invalid = <<>>
    /\ errors = <<>>
    /\ nsubs = 0
    /\ args = Defaults
    /\ marks_map = <<>>
    /\ response_data = <<>>
    /\ last = NoLast
    /\ twin = NoTwin
    /\ marks_file = <<>>

\* get_spreadsheets: one iteration of the loop over the response files
GetSpreadsheet ==
    /\ UNCHANGED report
    /\ adapter = "sheet" /\ pc = "load" /\ nsubs < MaxSubs
    /\ nsubs' = nsubs + 1
    /\ UNCHANGED <<groups, adapter, quiz, seen, phase, user_session_map, current, twin>>
    /\ \E file \in Forms : \E acc \in {SheetFile(file)} :
        \E rows \in {Collate(acc.current_responses, acc.current_rater, acc.current_total,
                             acc.invalid_file)} :
            /\ FileName(file.owner) \notin listed
            /\ listed' = listed \cup {FileName(file.owner)}
            /\ IF file.owner \notin expected_submissions
               THEN /\ invalid' = Append(invalid, file.owner)
                    /\ last' = [NoLast EXCEPT !.kind = "skipped", !.rater = file.owner]
                    /\ UNCHANGED <<pc, summary_sheet, respondents, errors>>
               ELSE IF acc.crashed
               THEN /\ pc' = "crashed"
                    /\ last' = [NoLast EXCEPT !.kind = "crashed", !.rater = file.owner]
                    /\ UNCHANGED <<summary_sheet, respondents, invalid, errors>>
               ELSE /\ pc' = pc
                    /\ errors' = SetErrors(errors, file.owner, acc.current_errors)
                    /\ summary_sheet' = summary_sheet \o rows
                    /\ respondents' = IF acc.invalid_file THEN respondents
                                      ELSE Append(respondents, file.owner)
                    /\ invalid' = IF acc.invalid_file THEN Append(invalid, file.owner) ELSE invalid
                    /\ last' = [kind |-> "read", rater |-> file.owner,
                                omitted |-> acc.current_group # 0
                                            /\ Omitted(acc.found_members, acc.valid_members),
                                changed |-> Changed(file.rows, acc.valid_members),
                                accepted |-> ~acc.invalid_file, rows |-> rows,
                                errs |-> acc.current_errors,
                                alone |-> Outcome(~acc.invalid_file, rows, acc.current_errors),
                                extra |-> ExtraForm(file), marked |-> MarkedRows(file.rows),
                                stamp |-> NoStamp, plain |-> TRUE, quiz |-> 0]

\* get_quizzes / get_new_quizzes: the next quiz of the assignment list
QuizStart ==
    /\ UNCHANGED report
    /\ adapter \in {"quiz", "newquiz"} /\ pc = "load"
    /\ adapter = "newquiz" => (phase = "" \/ (phase = "sessions" /\ user_session_map = <<>>))
    /\ \E g \in DOMAIN groups \ (seen \cup {quiz}) :
        /\ quiz' = g
        /\ seen' = IF quiz = 0 THEN seen ELSE seen \cup {quiz}
    /\ phase' = IF adapter = "newquiz" THEN "scan" ELSE ""
    /\ listed' = {}
    /\ user_session_map' = <<>>
    /\ UNCHANGED <<groups, adapter, pc, current, summary_sheet, respondents, invalid, errors,
                   nsubs, last, twin>>

\* get_quizzes: one submission of the current quiz
GetQuiz ==
    /\ UNCHANGED report
    /\ adapter = "quiz" /\ pc = "load" /\ quiz # 0 /\ nsubs < MaxSubs
    /\ nsubs' = nsubs + 1
    /\ UNCHANGED <<groups, adapter, pc, quiz, seen, phase, user_session_map, current, twin>>
    /\ \E sub \in Submissions(quiz, "quiz") : \E acc \in {QuizSubmission(Fresh, sub, quiz)} :
        \E rows \in {Collate(acc.current_responses, sub.rater, acc.current_total,
                             acc.invalid_response)} :
            /\ sub.rater \notin listed
            /\ listed' = listed \cup {sub.rater}
            /\ IF Skipped(sub, quiz) # "" \/ ~sub.history
               THEN /\ invalid' = Append(invalid, sub.rater)
                    /\ last' = [NoLast EXCEPT !.kind = "skipped", !.rater = sub.rater, !.stamp = Stamp(sub),
                                              !.plain = Plain(sub, quiz, adapter), !.quiz = quiz]
                    /\ UNCHANGED <<summary_sheet, respondents, errors>>
               ELSE /\ errors' = SetErrors(errors, sub.rater, acc.current_errors)
                    /\ summary_sheet' = summary_sheet \o rows
                    /\ respondents' = IF acc.invalid_response THEN respondents
                                      ELSE Append(respondents, sub.rater)
                    /\ invalid' = IF acc.invalid_response THEN Append(invalid, sub.rater)
                                  ELSE invalid
                    /\ last' = [kind |-> "read", rater |-> sub.rater,
                                omitted |-> Omitted(Subjects(sub.answers), groups[quiz]),
                                changed |-> Changed(AnswerCells(sub.answers), groups[quiz]),
                                accepted |-> ~acc.invalid_response, rows |-> rows,
                                errs |-> acc.current_errors,
                                alone |-> Outcome(~acc.invalid_response, rows, acc.current_errors),
                                extra |-> ExtraAnswers(sub, quiz, "quiz"), marked |-> <<>>,
                                stamp |-> Stamp(sub), plain |-> Plain(sub, quiz, "quiz"), quiz |-> quiz]

\* get_quizzes run on the submission too: what it adds to its own results
TwinStep(sub, g) ==
    LET c == AsClassic(sub)
        acc == QuizSubmission(Fresh, c, g)
        ok == Skipped(c, g) = "" /\ ~acc.invalid_response
        rows == Collate(acc.current_responses, c.rater, acc.current_total, ~ok)
    IN  [summary_sheet |-> twin.summary_sheet \o rows,
         respondents |-> IF ok THEN Append(twin.respondents, c.rater) ELSE twin.respondents,
         invalid |-> IF ok THEN twin.invalid ELSE Append(twin.invalid, c.rater),
         logical |-> twin.logical /\ Logical(sub, g)]

\* get_new_quizzes: one entry of the quiz's submission list
NewQuizScan ==
    /\ UNCHANGED report
    /\ adapter = "newquiz" /\ pc = "load" /\ phase = "scan" /\ nsubs < MaxSubs
    /\ nsubs' = nsubs + 1
    /\ UNCHANGED <<groups, adapter, pc, quiz, seen, phase, current, summary_sheet, respondents,
                   errors>>
    /\ \E sub \in Submissions(quiz, "newquiz") :
        /\ sub.rater \notin listed
        /\ listed' = listed \cup {sub.rater}
        /\ twin' = TwinStep(sub, quiz)
        /\ IF Skipped(sub, quiz) # ""
           THEN /\ invalid' = Append(invalid, sub.rater)
                /\ last' = [NoLast EXCEPT !.kind = "skipped", !.rater = sub.rater, !.stamp = Stamp(sub),
                                              !.plain = Plain(sub, quiz, adapter), !.quiz = quiz]
                /\ UNCHANGED user_session_map
           ELSE /\ user_session_map' = Append(user_session_map, sub)
                /\ last' = [NoLast EXCEPT !.kind = "kept", !.rater = sub.rater, !.stamp = Stamp(sub),
                                              !.plain = Plain(sub, quiz, adapter), !.quiz = quiz]
                /\ UNCHANGED invalid

\* get_new_quizzes: the submission list is read; the quiz's collections are set up
NewQuizBegin ==
    /\ UNCHANGED report
    /\ adapter = "newquiz" /\ pc = "load" /\ phase = "scan"
    /\ phase' = "sessions"
    /\ current' = IF user_session_map = <<>> THEN current ELSE Fresh
    /\ UNCHANGED <<groups, adapter, pc, quiz, seen, listed, user_session_map, summary_sheet,
                   respondents, invalid, errors, nsubs, last, twin>>

\* get_new_quizzes: one session of user_session_map
NewQuizSession ==
    /\ UNCHANGED report
    /\ adapter = "newquiz" /\ pc = "load" /\ phase = "sessions" /\ user_session_map # <<>>
    /\ user_session_map' = Tail(user_session_map)
    /\ UNCHANGED <<groups, adapter, quiz, seen, listed, phase, nsubs, twin>>
    /\ \E sub \in {Head(user_session_map)} : \E acc \in {NewQuizSubmission(current, sub, quiz)} :
        \E rows \in {Collate(acc.current_responses, sub.rater, acc.current_total,
                             acc.invalid_response)} :
        \E one \in {NewQuizSubmission(Fresh, sub, quiz)} :
            IF acc.exited
            THEN /\ pc' = "exit"
                 /\ last' = [NoLast EXCEPT !.kind = "exit", !.rater = sub.rater, !.stamp = Stamp(sub),
                                              !.plain = Plain(sub, quiz, adapter), !.quiz = quiz]
                 /\ UNCHANGED <<current, summary_sheet, respondents, invalid, errors>>
            ELSE /\ pc' = pc
                 /\ current' = acc
                 /\ errors' = SetErrors(errors, sub.rater, acc.current_errors)
                 /\ summary_sheet' = summary_sheet \o rows
                 /\ respondents' = IF acc.invalid_response THEN respondents
                                   ELSE Append(respondents, sub.rater)
                 /\ invalid' = IF acc.invalid_response THEN Append(invalid, sub.rater) ELSE invalid
                 /\ last' = [kind |-> "read", rater |-> sub.rater,
                             omitted |-> Omitted(Subjects(sub.answers), groups[quiz]),
                             changed |-> {},
                             accepted |-> ~acc.invalid_response, rows |-> rows,
                             errs |-> acc.current_errors,
                             alone |-> Outcome(~one.invalid_response,
                                               Collate(one.current_responses, sub.rater,
                                                       one.current_total, one.invalid_response),
                                               one.current_errors),
                             extra |-> ExtraAnswers(sub, quiz, "newquiz"), marked |-> <<>>,
                             stamp |-> Stamp(sub), plain |-> Plain(sub, quiz, "newquiz"),
                             quiz |-> quiz]

Next ==
    \/ GetSpreadsheet
    \/ QuizStart
    \/ GetQuiz
    \/ NewQuizScan
    \/ NewQuizBegin
    \/ NewQuizSession

Spec == Init /\ [][Next]_vars

----------------------------------------------------------------------------
(* The calculation: steps 1-7 on the response summary read back by pandas  *)

\* NaN of a float column; d = 0 tells it from every rational
NaN == [n |-> 0, d |-> 0]
IsNaN(x) == x.d = 0

RAbs(a) == [n |-> Abs(a.n), d |-> a.d]

\* numpy's round(): to the nearest integer, ties to the even one
RoundHalfEven(q) ==
    LET f == q.n \div q.d
        r == q.n - f * q.d
    IN  IF 2 * r < q.d THEN f
        ELSE IF 2 * r > q.d THEN f + 1
        ELSE IF f % 2 = 0 THEN f ELSE f + 1

\* the order of Python's str on the student numbers of the model
StrOrder == <<"11", "12", "13", "21", "99">>
StrIndex(x) == CHOOSE i \in DOMAIN StrOrder : StrOrder[i] = x
KeyLess(a, b) == a[1] < b[1] \/ (a[1] = b[1] /\ StrIndex(a[2]) < StrIndex(b[2]))

\* the keys (Group, Subject) in sorted order, as groupby and sort_values leave them
RECURSIVE SortKeys(_)
SortKeys(keys) ==
    IF keys = {} THEN <<>>
    ELSE LET k == CHOOSE x \in keys : \A y \in keys \ {x} : KeyLess(x, y)
         IN  <<k>> \o SortKeys(keys \ {k})

\* step 1: data.groupby('Group').nunique()
count_group_members(data, g) == Cardinality({data[i].Subject : i \in {j \in DOMAIN data : data[j].Group = g}})
count_webpa_submissions(data, g) == Cardinality({data[i].Rater : i \in {j \in DOMAIN data : data[j].Group = g}})
\* a variant with the ratio upside down: submissions over members
InverseFactor(data, g) == Rat(count_webpa_submissions(data, g), count_group_members(data, g))

webpa_adjustment_factor(data, g) == Rat(count_group_members(data, g), count_webpa_submissions(data, g))

\* step 2: groupby(['Group', 'Subject']).agg(Score=('Normalised', 'sum')), the rows
\* of a key added up in the order of the sheet
\* a variant that keeps the first row of a key instead of adding the rows up
RECURSIVE NormalisedFirst(_, _, _)
NormalisedFirst(data, g, subject) ==
    IF data = <<>> THEN RInt(0)
    ELSE IF Head(data).Group = g /\ Head(data).Subject = subject THEN Head(data).Normalised
    ELSE NormalisedFirst(Tail(data), g, subject)

RECURSIVE NormalisedTotal(_, _, _)
NormalisedTotal(data, g, subject) ==
    IF data = <<>> THEN RInt(0)
    ELSE LET rest == NormalisedTotal(Tail(data), g, subject)
         IN  IF Head(data).Group = g /\ Head(data).Subject = subject
             THEN RAdd(Head(data).Normalised, rest) ELSE rest

Score(data, g, subject) == RMul(NormalisedTotal(data, g, subject), webpa_adjustment_factor(data, g))

\* a variant that takes the deviations from 0 in the place of the mean
RawMoment(data, g) ==
    LET subjects == {data[i].Subject : i \in {j \in DOMAIN data : data[j].Group = g}}
        n == Cardinality(subjects)
        RECURSIVE Sum(_, _)
        Sum(S, f) == IF S = {} THEN RInt(0)
                     ELSE LET x == CHOOSE y \in S : TRUE IN RAdd(f[x], Sum(S \ {x}, f))
        sq == [x \in subjects |-> RMul(Score(data, g, x), Score(data, g, x))]
    IN  IF n < 2 THEN NaN ELSE RDiv(Sum(subjects, sq), RInt(n - 1))

\* step 4: agg(Variance=('Score', 'std')), the sample standard deviation of the
\* group's scores, carried by its square; NaN for a group of one subject
webpa_variance(data, g) ==
    LET subjects == {data[i].Subject : i \in {j \in DOMAIN data : data[j].Group = g}}
        n == Cardinality(subjects)
        RECURSIVE Sum(_, _)
        Sum(S, f) == IF S = {} THEN RInt(0)
                     ELSE LET x == CHOOSE y \in S : TRUE IN RAdd(f[x], Sum(S \ {x}, f))
        score == [x \in subjects |-> Score(data, g, x)]
        mean == RDiv(Sum(subjects, score), RInt(n))
        sq == [x \in subjects |-> RMul(RSub(score[x], mean), RSub(score[x], mean))]
    IN  IF n < 2 THEN NaN ELSE RDiv(Sum(subjects, sq), RInt(n - 1))

\* steps 1-4: the table indexed by (Group, Subject)
Aggregation(data, respondent_list) ==
    LET keys == SortKeys({<<data[i].Group, data[i].Subject>> : i \in DOMAIN data})
    IN  [k \in DOMAIN keys |->
            [Group |-> keys[k][1], Subject |-> keys[k][2],
             Score |-> Score(data, keys[k][1], keys[k][2]),
             Adjustment |-> webpa_adjustment_factor(data, keys[k][1]),
             Raters |-> RInt(count_webpa_submissions(data, keys[k][1])),
             Members |-> RInt(count_group_members(data, keys[k][1])),
             Responded |-> IF keys[k][2] \in SeqToSet(respondent_list) THEN "Y" ELSE "",
             Variance |-> webpa_variance(data, keys[k][1]),
             Original |-> NaN, Weighted |-> NaN, Mark |-> NaN, Scaled |-> ""]]

\* step 5: str.isdigit() and the group number of a group name, on the keys of the model
IsDigit(key) == key \in {"11", "12", "13", "21", "99"}
GroupNumber(name) ==
    CASE name = "Group 1" -> 1
      [] name = "Group 2" -> 2
      [] OTHER -> 0

\* the rows of NaN added for a group that has no row in the table
EmptyRows(g) ==
    [i \in DOMAIN groups[g] |->
        [Group |-> g, Subject |-> groups[g][i], Score |-> NaN, Adjustment |-> NaN, Raters |-> NaN,
         Members |-> NaN, Responded |-> "", Variance |-> NaN,
         Original |-> NaN, Weighted |-> NaN, Mark |-> NaN, Scaled |-> ""]]

\* a variant that adds no row for a group without responses
AddNothing(table, gs) == table

RECURSIVE AddMissing(_, _)
AddMissing(table, gs) ==
    IF gs = {} THEN table
    ELSE LET g == CHOOSE x \in gs : \A y \in gs : x <= y
         IN  AddMissing(IF \E i \in DOMAIN table : table[i].Group = g THEN table
                        ELSE table \o EmptyRows(g), gs \ {g})

\* a variant of the join that gives a missing mark the value 0
OriginalOrZero(marks, row) ==
    IF \A key \in DOMAIN marks : ~IsDigit(key)
    THEN IF \E key \in DOMAIN marks : GroupNumber(key) = row.Group
         THEN marks[CHOOSE key \in DOMAIN marks : GroupNumber(key) = row.Group] ELSE RInt(0)
    ELSE IF row.Subject \in DOMAIN marks THEN marks[row.Subject] ELSE RInt(0)

\* response_data.join(original_marks): by group number or by student number
OriginalOf(marks, row) ==
    IF \A key \in DOMAIN marks : ~IsDigit(key)
    THEN IF \E key \in DOMAIN marks : GroupNumber(key) = row.Group
         THEN marks[CHOOSE key \in DOMAIN marks : GroupNumber(key) = row.Group] ELSE NaN
    ELSE IF row.Subject \in DOMAIN marks THEN marks[row.Subject] ELSE NaN

\* sort_values(['Group', 'Subject'])
SortRows(table) ==
    LET keys == SortKeys({<<table[i].Group, table[i].Subject>> : i \in DOMAIN table})
    IN  [k \in DOMAIN keys |->
            table[CHOOSE i \in DOMAIN table : <<table[i].Group, table[i].Subject>> = keys[k]]]

ImportMarks(table, marks) ==
    LET full == AddMissing(table, DOMAIN groups)
    IN  SortRows([i \in DOMAIN full |-> [full[i] EXCEPT !.Original = OriginalOf(marks, full[i])]])

\* a variant with > in the place of >=
StrictlyAbove(variance, minimum_variance) ==
    /\ ~IsNaN(variance)
    /\ \/ RLt(minimum_variance, RInt(0))
       \/ RLt(RMul(minimum_variance, minimum_variance), variance)

\* step 6: Variance >= minimum_variance, both sides squared; False for NaN
AboveThreshold(variance, minimum_variance) ==
    /\ ~IsNaN(variance)
    /\ \/ RLe(minimum_variance, RInt(0))
       \/ RLe(RMul(minimum_variance, minimum_variance), variance)

Weighted(row, a) ==
    IF AboveThreshold(row.Variance, a.minimum_variance)
    THEN IF IsNaN(row.Original) \/ IsNaN(row.Score) THEN NaN ELSE RMul(row.Original, row.Score)
    ELSE row.Original

\* step 7: the cap
Capped(weighted, maximum_mark) == IF RLt(maximum_mark, weighted) THEN maximum_mark ELSE weighted

\* a variant that truncates instead of rounding
RoundedDown(mark, mark_rounding) ==
    LET rounding_factor == RDiv(RInt(1), mark_rounding)
        q == RMul(mark, rounding_factor)
    IN  RDiv(RInt(q.n \div q.d), rounding_factor)

\* step 7: (Mark * rounding_factor).round().astype(int) / rounding_factor
Rounded(mark, mark_rounding) ==
    LET rounding_factor == RDiv(RInt(1), mark_rounding)
    IN  RDiv(RInt(RoundHalfEven(RMul(mark, rounding_factor))), rounding_factor)

\* a variant of the closeness test with a tolerance of 20 marks
IsCloseWide(a, b) ==
    /\ ~IsNaN(a) /\ ~IsNaN(b)
    /\ RLe(RAbs(RSub(a, b)), RInt(20))

\* math.isclose(a, b, abs_tol=0.00001); rel_tol 1e-09 stays below abs_tol for marks under 10000
IsClose(a, b) ==
    /\ ~IsNaN(a) /\ ~IsNaN(b)
    /\ RWithin(RAbs(RSub(a, b)), 100000)

\* steps 6 and 7 on one row; IntCastingNaNError is told by Mark = NaN
ResolveRow(row, a) ==
    LET w == Weighted(row, a)
    IN  [row EXCEPT !.Weighted = w,
                    !.Mark = IF IsNaN(w) THEN NaN ELSE Rounded(Capped(w, a.maximum_mark), a.mark_rounding),
                    !.Scaled = IF ~IsClose(row.Original, w) THEN "Y" ELSE ""]

\* steps 6 and 7 up to the cap: the row when 1 / args.mark_rounding raises
CappedRow(row, a) ==
    LET w == Weighted(row, a)
    IN  [row EXCEPT !.Weighted = w,
                    !.Mark = IF IsNaN(w) THEN NaN ELSE Capped(w, a.maximum_mark)]

----------------------------------------------------------------------------
(* Inputs of a processing run *)
MarksRoster == (1 :> <<"11", "12", "13">>) @@ (2 :> <<"21">>)

\* the answers a member can hand in: one rating text per member of the group
Vectors(n) ==
    IF n = 3 THEN {<<"3", "3", "3">>, <<"1", "2", "3">>, <<"5", "2", "3">>, <<"5", "1", "1">>}
    ELSE {[i \in 1..n |-> "3"], [i \in 1..n |-> "x"]}

Answered(g, rater, texts) ==
    [rater |-> rater, workflow_state |-> "complete", submitted_at |-> 1, due_at |-> 1,
     cached_due_date |-> 1, history |-> TRUE,
     answers |-> [i \in DOMAIN texts |-> [subject |-> groups[g][i], text |-> texts[i]]]]

\* the submission list of the quiz of group g: members in roster order, each
\* with a submission (its rating texts) or without one (<<>>)
RECURSIVE QuizList(_, _, _)
QuizList(g, handed, i) ==
    IF i > Len(groups[g]) THEN <<>>
    ELSE (IF handed[i] = <<>> THEN <<>> ELSE <<Answered(g, groups[g][i], handed[i])>>)
         \o QuizList(g, handed, i + 1)

MarkValues == {Rat(773, 10), RInt(101), RInt(60)}
GroupMarks == [{"Group 1", "Group 2"} -> MarkValues]
StudentMarks ==
    {[x \in {"11", "12", "13", "21"} |-> IF x = "21" THEN m["Group 2"] ELSE m["Group 1"]] : m \in GroupMarks}
\* a marks file that lacks the row of one group or of one student
Without(m, key) == [x \in DOMAIN m \ {key} |-> m[x]]
PartialMarks ==
    {Without(m, key) : m \in GroupMarks, key \in {"Group 1", "Group 2"}}
    \cup {Without(m, key) : m \in StudentMarks, key \in {"12", "21"}}
MarksMaps == GroupMarks \cup StudentMarks \cup PartialMarks

\* --mark-rounding is any float: zero and negative values are not refused by get_args
Configs ==
    [minimum_variance : {Rat(1, 5), Rat(1, 2)}, mark_rounding : {Rat(1, 2), RInt(5)},
     maximum_mark : {RInt(100), RInt(98)}]
    \cup {[Defaults EXCEPT !.mark_rounding = r] : r \in {RInt(0), Rat(-1, 2)}}

----------------------------------------------------------------------------
(* A processing run with --quiz-group-name: get_quizzes, then steps 1-7 *)

\* get_quizzes on the submission list of one quiz
RECURSIVE ReadQuiz(_, _, _)
ReadQuiz(out, subs, g) ==
    IF subs = <<>> THEN out
    ELSE LET sub == Head(subs)
             acc == QuizSubmission(Fresh, sub, g)
             skipped == Skipped(sub, g) # "" \/ ~sub.history
             rejected == skipped \/ acc.invalid_response
         IN  ReadQuiz([summary_sheet |-> out.summary_sheet
                                          \o Collate(acc.current_responses, sub.rater,
                                                     acc.current_total, rejected),
                       respondents |-> IF rejected THEN out.respondents
                                       ELSE Append(out.respondents, sub.rater),
                       invalid |-> IF rejected THEN Append(out.invalid, sub.rater) ELSE out.invalid,
                       errors |-> IF skipped THEN out.errors
                                  ELSE SetErrors(out.errors, sub.rater, acc.current_errors)],
                      Tail(subs), g)

InitMarks ==
    /\ groups = MarksRoster
    /\ adapter = "quiz"
    /\ pc = "load"
    /\ quiz = 0
    /\ seen = {}
    /\ listed = {}
    /\ phase = ""
    /\ user_session_map = <<>>
    /\ current = Fresh
    /\ summary_sheet = <<>>
    /\ respondents = <<>>
    /\ invalid = <<>>
    /\ errors = <<>>
    /\ nsubs = 0
    /\ args = Defaults
    /\ marks_map = <<>>
    /\ response_data = <<>>
    /\ last = NoLast
    /\ twin = NoTwin
    /\ marks_file = <<>>

\* a variant that goes on without a respondent
GoesOn(respondent_list) == "loaded"

\* if len(respondent_list) <= 0: sys.exit()
AfterResponses(respondent_list) == IF Len(respondent_list) <= 0 THEN "exit" ELSE "loaded"

\* the quizzes of both groups are read; without a respondent the run ends
LoadResponses ==
    /\ pc = "load"
    /\ \E h1 \in [DOMAIN groups[1] -> Vectors(Len(groups[1])) \cup {<<>>}] :
       \E h2 \in [DOMAIN groups[2] -> Vectors(Len(groups[2])) \cup {<<>>}] :
       \E out \in {ReadQuiz(ReadQuiz([summary_sheet |-> <<>>, respondents |-> <<>>,
                                      invalid |-> <<>>, errors |-> <<>>],
                                     QuizList(1, h1, 1), 1),
                            QuizList(2, h2, 1), 2)} :
            /\ summary_sheet' = out.summary_sheet
            /\ respondents' = out.respondents
            /\ invalid' = out.invalid
            /\ errors' = out.errors
            /\ nsubs' = Len(out.respondents) + Len(out.invalid)
            /\ seen' = DOMAIN groups
            /\ pc' = AfterResponses(out.respondents)
    /\ UNCHANGED <<marks_file, groups, adapter, quiz, listed, phase, user_session_map, current, args,
                   marks_map, response_data, last, twin>>

\* steps 1 to 4
Aggregate ==
    /\ pc = "loaded"
    /\ response_data' = Aggregation(summary_sheet, respondents)
    /\ pc' = "aggregated"
    /\ UNCHANGED <<marks_file, groups, adapter, quiz, seen, listed, phase, user_session_map, current,
                   summary_sheet, respondents, invalid, errors, nsubs, args, marks_map, last, twin>>

\* step 5, with the marks file of the run
JoinMarks ==
    /\ pc = "aggregated"
    /\ \E marks \in MarksMaps :
        /\ marks_map' = marks
        /\ response_data' = ImportMarks(response_data, marks)
    /\ pc' = "joined"
    /\ UNCHANGED <<marks_file, groups, adapter, quiz, seen, listed, phase, user_session_map, current,
                   summary_sheet, respondents, invalid, errors, nsubs, args, last, twin>>

\* steps 6 and 7, with the options of the run; ZeroDivisionError and
\* IntCastingNaNError end the run
ResolveMarks ==
    /\ pc = "joined"
    /\ \E a \in Configs :
        \E table \in {[i \in DOMAIN response_data |->
                          IF a.mark_rounding = RInt(0) THEN CappedRow(response_data[i], a)
                          ELSE ResolveRow(response_data[i], a)]} :
            /\ args' = a
            /\ response_data' = table
            /\ pc' = IF a.mark_rounding = RInt(0) \/ \E i \in DOMAIN table : IsNaN(table[i].Mark)
                     THEN "crashed" ELSE "resolved"
    /\ UNCHANGED <<marks_file, groups, adapter, quiz, seen, listed, phase, user_session_map, current,
                   summary_sheet, respondents, invalid, errors, nsubs, marks_map, last, twin>>

\* step 8: webpa-calculation.xlsx and webpa-final-marks.xlsx are written
SaveResults ==
    /\ pc = "resolved"
    /\ pc' = "saved"
    /\ UNCHANGED <<marks_file, groups, adapter, quiz, seen, listed, phase, user_session_map, current,
                   summary_sheet, respondents, invalid, errors, nsubs, args, marks_map,
                   response_data, last, twin>>

\* the marks file is empty or not found: the run ends before any response is read
MarksNotFound ==
    /\ pc = "load"
    /\ pc' = "exit"
    /\ UNCHANGED <<marks_file, groups, adapter, quiz, seen, listed, phase, user_session_map, current,
                   summary_sheet, respondents, invalid, errors, nsubs, args, marks_map,
                   response_data, last, twin>>

NextMarks ==
    \/ MarksNotFound
    \/ LoadResponses
    \/ Aggregate
    \/ JoinMarks
    \/ ResolveMarks
    \/ SaveResults

SpecMarks == InitMarks /\ [][NextMarks]_vars

----------------------------------------------------------------------------
(* Utils.get_marks_mapping: the marks file, row by row (pc "marks", then    *)
(* "mapped" when the mapping is returned, "crashed" on an exception)       *)
MaxFileRows == 2

\* a cell of a row: a string of a csv file, or a number or None of an xlsx
\* sheet; s is what str() makes of it
TextCell(text) == [t |-> "str", s |-> text, v |-> NaN]
NumberCell(text, value) == [t |-> "num", s |-> text, v |-> value]
EmptyCell == [t |-> "none", s |-> "None", v |-> NaN]

\* float(cell): ok is FALSE for ValueError (a string that is no number) and
\* TypeError (None)
PyFloat(cell) ==
    CASE cell.t = "num" -> [ok |-> TRUE, v |-> cell.v]
      [] cell.t = "str" /\ cell.s = "60" -> [ok |-> TRUE, v |-> RInt(60)]
      [] cell.t = "str" /\ cell.s = "101" -> [ok |-> TRUE, v |-> RInt(101)]
      [] cell.t = "str" /\ cell.s = "77.3" -> [ok |-> TRUE, v |-> Rat(773, 10)]
      [] OTHER -> [ok |-> FALSE, v |-> NaN]

\* marks_map[key] = entry
Put(marks, key, mark) == [k \in DOMAIN marks \cup {key} |-> IF k = key THEN mark ELSE marks[k]]

\* parse_marks_file_row(marks_map, row); raised: row[1] met a row of fewer
\* than two columns (IndexError, which the except clause does not name)
parse_marks_file_row(marks, row) ==
    IF Len(row) < 2 THEN [marks_map |-> marks, raised |-> TRUE]
    ELSE LET grade == PyFloat(row[2])
             student_number_or_group_name == row[1].s
         IN  [marks_map |-> IF grade.ok /\ student_number_or_group_name # ""
                            THEN Put(marks, student_number_or_group_name, grade.v)
                            ELSE marks,
              raised |-> FALSE]

\* the rows a marks file can hold: csv rows (strings; an empty line is the
\* row <<>>) and xlsx rows (numbers and None)
MarkRows ==
    {<<>>,
     <<TextCell("11")>>,
     <<TextCell("Student"), TextCell("Mark")>>,
     <<TextCell("11"), TextCell("60")>>,
     <<TextCell("11"), TextCell("77.3")>>,
     <<TextCell("Group 1"), TextCell("101")>>,
     <<TextCell(""), TextCell("60")>>,
     <<TextCell("12"), TextCell("60"), TextCell("well done")>>,
     <<NumberCell("12", RInt(12)), NumberCell("60", RInt(60))>>,
     <<NumberCell("12", RInt(12)), EmptyCell>>,
     <<EmptyCell, NumberCell("60", RInt(60))>>}

MarkFiles == UNION {[1..n -> MarkRows] : n \in 0..MaxFileRows}

InitRows ==
    /\ groups = MarksRoster
    /\ adapter = "quiz"
    /\ pc = "marks"
    /\ quiz = 0
    /\ seen = {}
    /\ listed = {}
    /\ phase = ""
    /\ user_session_map = <<>>
    /\ current = Fresh
    /\ summary_sheet = <<>>
    /\ respondents = <<>>
    /\ invalid = <<>>
    /\ errors = <<>>
    /\ nsubs = 0
    /\ args = Defaults
    /\ marks_map = <<>>
    /\ response_data = <<>>
    /\ last = NoLast
    /\ twin = NoTwin
    /\ marks_file \in MarkFiles

\* what get_marks_mapping leaves alone
loaded == <<groups, adapter, quiz, seen, listed, phase, user_session_map, current, summary_sheet,
            respondents, invalid, errors, nsubs, args, response_data, last, twin>>

\* one iteration of the loop over the rows
ParseMarksRow ==
    /\ pc = "marks" /\ marks_file # <<>>
    /\ LET parsed == parse_marks_file_row(marks_map, Head(marks_file))
       IN  IF parsed.raised
           THEN pc' = "crashed" /\ UNCHANGED <<marks_map, marks_file>>
           ELSE pc' = pc /\ marks_map' = parsed.marks_map /\ marks_file' = Tail(marks_file)
    /\ UNCHANGED loaded

\* return marks_map
MarksMapped ==
    /\ pc = "marks" /\ marks_file = <<>>
    /\ pc' = "mapped"
    /\ UNCHANGED <<marks_map, marks_file>>
    /\ UNCHANGED loaded

NextRows ==
    \/ ParseMarksRow
    \/ MarksMapped

SpecRows == InitRows /\ [][NextRows]_vars

----------------------------------------------------------------------------
(* Properties of the response adapters *)

HasMsg(errs, m) == \E i \in DOMAIN errs : errs[i].msg = m

RECURSIVE NormalisedSum(_, _)
NormalisedSum(rows, rater) ==
    IF rows = <<>> THEN RInt(0)
    ELSE IF Head(rows).Rater = rater
    THEN RAdd(Head(rows).Normalised, NormalisedSum(Tail(rows), rater))
    ELSE NormalisedSum(Tail(rows), rater)

\* C1: in every adapter, a submission that has been read and whose rated
\* subjects omit a member of its group is rejected: its rater is put on the
\* invalid list, 'Group member(s) missing' is among its reasons, and it adds
\* no row to the response summary.
C1_OmissionRejected ==
    (last.kind = "read" /\ last.omitted) =>
        /\ ~last.accepted
        /\ last.rows = <<>>
        /\ HasMsg(last.errs, "Group member(s) missing")
        /\ invalid # <<>> /\ invalid[Len(invalid)] = last.rater

C3_NormalisedSumsToOne ==
    \A r \in SeqToSet(respondents) :
        Count(respondents, r) = 1 => NormalisedSum(summary_sheet, r) = RInt(1)

\* C4: every Rating of the response summary is an integer in 1..5, and an
\* accepted submission whose stored rating of a member differs from the raw
\* value has the correction message for that member.
C4_RatingBounded ==
    /\ \A i \in DOMAIN summary_sheet : summary_sheet[i].Rating \in 1..5
    /\ (last.kind = "read" /\ last.accepted) =>
          \A s \in last.changed :
              \E i \in DOMAIN last.errs :
                  last.errs[i] = Msg("Rating is outside of range 1-5", {s})

\* C6: what a submission is given (accepted or rejected, its messages, its
\* rows) is what it is given when it is the only submission of the run.
C6_OutcomeIndependent ==
    last.kind = "read" =>
        Outcome(last.accepted, last.rows, last.errs) = last.alone

\* C7: when every submission of a new-quiz run is a logical submission (each
\* group member rated 1..5 or left unanswered, complete and in time) and all
\* sessions have been read, get_new_quizzes has the respondents, the invalid
\* list and the set of summary rows that get_quizzes has on the same
\* submissions.
C7_NewQuizAsClassic ==
    (adapter = "newquiz" /\ pc = "load" /\ phase = "sessions" /\ user_session_map = <<>>
     /\ twin.logical) =>
        /\ respondents = twin.respondents
        /\ SameSorted(invalid, twin.invalid)
        /\ SeqToSet(summary_sheet) = SeqToSet(twin.summary_sheet)

----------------------------------------------------------------------------
(* Properties of the calculation *)

MaxPermRows == 5

Transpositions(n) ==
    {[i \in 1..n |-> IF i = a THEN b ELSE IF i = b THEN a ELSE i] : a \in 1..n, b \in 1..n}

\* the reorderings of a sheet of n rows that are tried: all of them for a
\* short sheet, every exchange of two rows for a longer one
RowOrders(n) == IF n <= MaxPermRows THEN Permutations(1..n) ELSE Transpositions(n)

IsMultiple(x, unit) == RDiv(x, unit).d = 1

\* C5: steps 1-4 give the same table (Score, Adjustment, Raters, Members,
\* Variance of every (Group, Subject)) for every reordering of the rows of
\* the response summary.  Sums are exact (rationals).
C5_PermutationInvariant ==
    pc = "aggregated" =>
        \A p \in RowOrders(Len(summary_sheet)) :
            Aggregation([i \in DOMAIN summary_sheet |-> summary_sheet[p[i]]], respondents)
                = response_data

\* two raters of one subject with different Normalised values: the order could matter
C5_Witness ==
    /\ pc = "aggregated"
    /\ \E i, j \in DOMAIN summary_sheet :
        /\ summary_sheet[i].Group = summary_sheet[j].Group
        /\ summary_sheet[i].Subject = summary_sheet[j].Subject
        /\ summary_sheet[i].Rater # summary_sheet[j].Rater
        /\ summary_sheet[i].Normalised # summary_sheet[j].Normalised

C9_MultipleAndNotAboveMaximum ==
    (pc = "resolved" /\ RLt(RInt(0), args.mark_rounding)) =>
        \A i \in DOMAIN response_data :
            /\ IsMultiple(response_data[i].Mark, args.mark_rounding)
            /\ RLe(response_data[i].Mark, args.maximum_mark)

\* C10: Mark is Weighted capped at maximum_mark and then rounded: for a
\* mark_rounding > 0, a multiple of mark_rounding at most mark_rounding / 2
\* away from min(Weighted, maximum_mark).
C10_CapThenRound ==
    (pc = "resolved" /\ RLt(RInt(0), args.mark_rounding)) =>
        \A i \in DOMAIN response_data :
            LET row == response_data[i]
                target == IF RLt(args.maximum_mark, row.Weighted) THEN args.maximum_mark
                          ELSE row.Weighted
            IN  /\ IsMultiple(row.Mark, args.mark_rounding)
                /\ RLe(RAbs(RSub(row.Mark, target)), RDiv(args.mark_rounding, RInt(2)))

\* rounding 0.5: 77.3 -> 77.5, and 101 with maximum 100 -> 100
C10_Witness ==
    /\ pc = "resolved"
    /\ args.mark_rounding = Rat(1, 2) /\ args.maximum_mark = RInt(100)
    /\ \E i \in DOMAIN response_data :
        response_data[i].Weighted = Rat(773, 10) /\ response_data[i].Mark = Rat(155, 2)
    /\ \E i \in DOMAIN response_data :
        response_data[i].Weighted = RInt(101) /\ response_data[i].Mark = RInt(100)

Tolerance == Rat(1, 100000)

\* C11 as stated: Scaled is 'Y' if and only if the final Mark differs from
\* the Original mark by more than the tolerance 1e-5.
C11_ScaledIffMarkDiffers ==
    pc = "resolved" =>
        \A i \in DOMAIN response_data :
            response_data[i].Scaled = "Y"
                <=> ~RWithin(RAbs(RSub(response_data[i].Mark, response_data[i].Original)), Tolerance.d)

\* C11 amended: Scaled is 'Y' if and only if the Weighted mark differs from
\* the Original mark by more than the tolerance 1e-5; capping and rounding
\* alone do not set the flag.
C11_ScaledIffWeightedDiffers ==
    pc = "resolved" =>
        \A i \in DOMAIN response_data :
            response_data[i].Scaled = "Y"
                <=> ~RWithin(RAbs(RSub(response_data[i].Weighted, response_data[i].Original)), Tolerance.d)

\* a mark changed by rounding only and left unflagged, next to a flagged one
C11_Witness ==
    /\ pc = "resolved"
    /\ \E i \in DOMAIN response_data :
        /\ response_data[i].Weighted = response_data[i].Original
        /\ response_data[i].Mark # response_data[i].Original
        /\ response_data[i].Scaled = ""
    /\ \E i \in DOMAIN response_data :
        /\ response_data[i].Weighted # response_data[i].Original
        /\ response_data[i].Scaled = "Y"

\* the marks mapping has an entry for the member, or for the member's group
HasMark(g, subject) ==
    IF \A key \in DOMAIN marks_map : ~IsDigit(key)
    THEN \E key \in DOMAIN marks_map : GroupNumber(key) = g
    ELSE subject \in DOMAIN marks_map

RosterMembers == UNION {{<<g, groups[g][i]>> : i \in DOMAIN groups[g]} : g \in DOMAIN groups}

\* C12: when a roster member (or the member's group) has no entry in the
\* marks mapping, step 7 ends the run with an error and step 8 writes
\* nothing; a row without Original never has a Mark, and a run that reaches
\* its outputs has a row with an Original and a Mark for every member.
C12_MissingMarkStops ==
    /\ [](\A i \in DOMAIN response_data :
            IsNaN(response_data[i].Original) => IsNaN(response_data[i].Mark))
    /\ [](pc \in {"resolved", "saved"} =>
            \A m \in RosterMembers :
                /\ HasMark(m[1], m[2])
                /\ \E i \in DOMAIN response_data :
                    /\ response_data[i].Group = m[1] /\ response_data[i].Subject = m[2]
                    /\ ~IsNaN(response_data[i].Original) /\ ~IsNaN(response_data[i].Mark))
    /\ [][(pc = "joined" /\ \E m \in RosterMembers : ~HasMark(m[1], m[2])) => pc' = "crashed"]_vars

\* the run ended at step 7 for a member without a mark, next to a member with one
C12_Witness ==
    /\ pc = "crashed"
    /\ args.mark_rounding # RInt(0)
    /\ \E m \in RosterMembers : ~HasMark(m[1], m[2])
    /\ \E i, j \in DOMAIN response_data :
        /\ IsNaN(response_data[i].Original) /\ IsNaN(response_data[i].Mark)
        /\ ~IsNaN(response_data[j].Original) /\ ~IsNaN(response_data[j].Score)

\* C13: with a mark_rounding of zero or below the run stops before any Mark
\* is final: no run reaches its rounded marks, or its outputs, with such a value.
C13_NonPositiveRoundingStops ==
    pc \in {"resolved", "saved"} => RLt(RInt(0), args.mark_rounding)

\* the groups of the roster without a row in the response summary
SilentGroups == {g \in DOMAIN groups : \A i \in DOMAIN summary_sheet : summary_sheet[i].Group # g}

RowsOf(g, subject) ==
    {i \in DOMAIN response_data :
        response_data[i].Group = g /\ response_data[i].Subject = subject}

\* C14 as stated: every member of a group without an accepted submission is
\* in the result table with an undefined Score, Scaled and Responded blank,
\* and a final Mark equal to the Original mark.
C14_SilentGroupKeepsOriginal ==
    pc \in {"resolved", "saved"} =>
        \A m \in RosterMembers :
            m[1] \in SilentGroups =>
                /\ RowsOf(m[1], m[2]) # {}
                /\ \A i \in RowsOf(m[1], m[2]) :
                    /\ IsNaN(response_data[i].Score)
                    /\ response_data[i].Scaled = "" /\ response_data[i].Responded = ""
                    /\ response_data[i].Mark = response_data[i].Original

\* C14 amended: every such member is in the result table with an undefined
\* Score, Scaled and Responded blank and Weighted equal to Original; the
\* final Mark is the Original capped at maximum_mark and rounded to the
\* nearest multiple of mark_rounding.
C14_SilentGroupUnscaled ==
    pc \in {"resolved", "saved"} =>
        \A m \in RosterMembers :
            m[1] \in SilentGroups =>
                /\ RowsOf(m[1], m[2]) # {}
                /\ \A i \in RowsOf(m[1], m[2]) :
                    LET row == response_data[i]
                        target == IF RLt(args.maximum_mark, row.Original) THEN args.maximum_mark
                                  ELSE row.Original
                    IN  /\ IsNaN(row.Score)
                        /\ row.Scaled = "" /\ row.Responded = ""
                        /\ row.Weighted = row.Original
                        /\ IsMultiple(row.Mark, args.mark_rounding)
                        /\ RLe(RAbs(RSub(row.Mark, target)),
                               RDiv(RAbs(args.mark_rounding), RInt(2)))

\* group 1 handed in nothing, group 2 did; 77.3 becomes 77.5
C14_Witness ==
    /\ pc = "saved"
    /\ SilentGroups = {1}
    /\ \E i \in RowsOf(1, "11") :
        /\ response_data[i].Original = Rat(773, 10)
        /\ response_data[i].Mark = Rat(155, 2)
        /\ IsNaN(response_data[i].Score)

\* the groups with exactly one subject in the response summary
LoneGroups ==
    {g \in DOMAIN groups :
        Cardinality({summary_sheet[i].Subject :
                        i \in {j \in DOMAIN summary_sheet : summary_sheet[j].Group = g}}) = 1}

\* C15: a group with fewer than 2 subject scores (a single-member group whose
\* member responded) has the variance 0 and is not scaled: Weighted equals
\* Original.  The code leaves the variance undefined (NaN), the sample
\* deviation of one value, which only the comparison of step 6 absorbs.
C15_LoneGroupVarianceZero ==
    pc \in {"aggregated", "joined", "resolved", "saved"} =>
        \A i \in DOMAIN response_data :
            response_data[i].Group \in LoneGroups =>
                /\ response_data[i].Variance = RInt(0)
                /\ pc \in {"resolved", "saved"} => response_data[i].Weighted = response_data[i].Original

\* the rows of the response summary about subject x of group g, and the sum of
\* their normalised ratings
RatingsOf(g, x) == {i \in DOMAIN summary_sheet : summary_sheet[i].Group = g /\ summary_sheet[i].Subject = x}
RECURSIVE SumNormalised(_)
SumNormalised(S) ==
    IF S = {} THEN RInt(0)
    ELSE LET i == CHOOSE j \in S : TRUE
         IN  RAdd(summary_sheet[i].Normalised, SumNormalised(S \ {i}))

\* a group of 4 of which 2 responded, each giving every member the rating 3
FourOfTwo ==
    [i \in 1..8 |->
        [Rater |-> <<"11", "12">>[((i - 1) \div 4) + 1],
         Subject |-> <<"11", "12", "13", "99">>[((i - 1) % 4) + 1],
         Rating |-> 3, Normalised |-> Rat(3, 12), Group |-> 1]]

\* C16: for every group with at least one accepted submission, Adjustment is
\* the number of distinct subjects rated in the group over the number of its
\* distinct accepted raters, the same for every subject of the group, and each
\* subject's Score is the sum of its normalised ratings times that Adjustment;
\* a group of 4 with 2 respondents has the Adjustment 2.
C16_AdjustmentIsSubjectsOverRaters ==
    /\ webpa_adjustment_factor(FourOfTwo, 1) = RInt(2)
    /\ \A x \in {"11", "12", "13", "99"} : Score(FourOfTwo, 1, x) = RInt(1)
    /\ pc \in {"aggregated", "joined", "resolved", "saved"} =>
        \A g \in DOMAIN groups \ SilentGroups :
            LET subjects == {summary_sheet[i].Subject : i \in {j \in DOMAIN summary_sheet : summary_sheet[j].Group = g}}
                raters == {summary_sheet[i].Rater : i \in {j \in DOMAIN summary_sheet : summary_sheet[j].Group = g}}
                adjustment == Rat(Cardinality(subjects), Cardinality(raters))
            IN  /\ {response_data[i].Subject : i \in {j \in DOMAIN response_data : response_data[j].Group = g}} = subjects
                /\ \A i \in DOMAIN response_data :
                    response_data[i].Group = g =>
                        /\ response_data[i].Adjustment = adjustment
                        /\ response_data[i].Score = RMul(SumNormalised(RatingsOf(g, response_data[i].Subject)), adjustment)

\* two of the three members of group 1 responded: every subject of the group
\* has the Adjustment 3/2
C16_Witness ==
    /\ pc = "aggregated"
    /\ Cardinality({summary_sheet[i].Rater : i \in {j \in DOMAIN summary_sheet : summary_sheet[j].Group = 1}}) = 2
    /\ \A x \in {"11", "12", "13"} : \E i \in RowsOf(1, x) : response_data[i].Adjustment = Rat(3, 2)
    /\ \E i \in RowsOf(1, "11") : response_data[i].Score # RInt(1)

\* the groups of two or more members in which every member is an accepted
\* rater and every rater gives one rating to all the members
EvenGroups ==
    {g \in DOMAIN groups :
        LET rows == {i \in DOMAIN summary_sheet : summary_sheet[i].Group = g}
        IN  /\ Len(groups[g]) >= 2
            /\ {summary_sheet[i].Rater : i \in rows} = SeqToSet(groups[g])
            /\ \A i, j \in rows :
                   summary_sheet[i].Rater = summary_sheet[j].Rater
                       => summary_sheet[i].Rating = summary_sheet[j].Rating}

\* C17: in a group (of two or more) where every member responds and every
\* rater gives the same rating to every member (Scenario A: 3 members, all
\* ratings 3), all the Scores are equal, the variance of the group is 0, and
\* with minimum_variance > 0 every member's Weighted mark is the Original
\* mark and Scaled is blank.
C17_EqualRatingsLeaveMarks ==
    pc \in {"aggregated", "joined", "resolved", "saved"} =>
        \A i \in DOMAIN response_data :
            response_data[i].Group \in EvenGroups =>
                /\ \A j \in DOMAIN response_data :
                       response_data[j].Group = response_data[i].Group
                           => response_data[j].Score = response_data[i].Score
                /\ response_data[i].Variance = RInt(0)
                /\ (pc \in {"resolved", "saved"} /\ RLt(RInt(0), args.minimum_variance)) =>
                       /\ response_data[i].Weighted = response_data[i].Original
                       /\ response_data[i].Scaled = ""

\* Scenario A: the three members of group 1 all gave 3 to everyone, and the
\* marks have been resolved
C17_Witness ==
    /\ pc = "resolved"
    /\ 1 \in EvenGroups
    /\ \A i \in DOMAIN summary_sheet : summary_sheet[i].Group = 1 => summary_sheet[i].Rating = 3
    /\ RLt(RInt(0), args.minimum_variance)
    /\ \A x \in {"11", "12", "13"} : \E i \in RowsOf(1, x) :
           /\ response_data[i].Score = RInt(1)
           /\ response_data[i].Variance = RInt(0)
           /\ response_data[i].Original = RInt(60)
           /\ response_data[i].Weighted = RInt(60)
           /\ response_data[i].Scaled = ""

\* the rating that rater gave to subject in the response summary (0: none)
RatingBy(rater, subject) ==
    IF \E i \in DOMAIN summary_sheet : summary_sheet[i].Rater = rater /\ summary_sheet[i].Subject = subject
    THEN summary_sheet[CHOOSE i \in DOMAIN summary_sheet :
                           summary_sheet[i].Rater = rater /\ summary_sheet[i].Subject = subject].Rating
    ELSE 0

\* Scenario B in group 1: S1 = 11 rates self 5 and both peers 1, S2 = 12 and
\* S3 = 13 rate everyone 3, and the threshold is the default 0.2
ScenarioB ==
    /\ RatingBy("11", "11") = 5 /\ RatingBy("11", "12") = 1 /\ RatingBy("11", "13") = 1
    /\ \A r \in {"12", "13"} : \A x \in {"11", "12", "13"} : RatingBy(r, x) = 3
    /\ args.minimum_variance = Rat(1, 5)

\* the row of subject x of group 1 in the result table
RowB(x) == response_data[CHOOSE i \in DOMAIN response_data : response_data[i].Subject = x]

\* C18 as stated: in Scenario B the Score of S1 is strictly lower than those
\* of S2 and S3, the variance reaches minimum_variance, the mark of S1 is
\* scaled down, those of S2 and S3 are scaled up, and Scaled is 'Y' for all.
C18_SelfRaterScaledDown ==
    (pc \in {"resolved", "saved"} /\ ScenarioB) =>
        /\ RLt(RowB("11").Score, RowB("12").Score) /\ RLt(RowB("11").Score, RowB("13").Score)
        /\ RLe(RMul(args.minimum_variance, args.minimum_variance), RowB("11").Variance)
        /\ RLt(RowB("11").Weighted, RowB("11").Original)
        /\ \A x \in {"12", "13"} : RLt(RowB(x).Original, RowB(x).Weighted)
        /\ \A x \in {"11", "12", "13"} : RowB(x).Scaled = "Y"

\* C18 amended: in Scenario B the Score of S1 is 29/21, strictly higher than
\* the 17/21 of S2 and S3 (the rating S1 gives itself counts for S1), the
\* deviation of the group (its square is 48/441) reaches minimum_variance,
\* the mark of S1 is scaled up to Original * 29/21 and capped at
\* maximum_mark, those of S2 and S3 are scaled down to Original * 17/21, and
\* Scaled is 'Y' for all three.
C18_SelfRaterScaledUp ==
    (pc \in {"resolved", "saved"} /\ ScenarioB) =>
        /\ RowB("11").Score = Rat(29, 21)
        /\ \A x \in {"12", "13"} : RowB(x).Score = Rat(17, 21) /\ RLt(RowB(x).Score, RowB("11").Score)
        /\ \A x \in {"11", "12", "13"} :
            /\ RowB(x).Variance = Rat(48, 441)
            /\ RLe(RMul(args.minimum_variance, args.minimum_variance), RowB(x).Variance)
            /\ RowB(x).Weighted = RMul(RowB(x).Original, RowB(x).Score)
            /\ RowB(x).Scaled = "Y"
            /\ RLe(RowB(x).Mark, RAdd(args.maximum_mark, RDiv(RAbs(args.mark_rounding), RInt(2))))
        /\ RLt(RowB("11").Original, RowB("11").Weighted)
        /\ \A x \in {"12", "13"} :
            /\ RLt(RowB(x).Weighted, RowB(x).Original)
            /\ RLt(RowB(x).Mark, RowB(x).Original)

\* Scenario B with the mark 60 for group 1: 83 for S1, 48.5 for S2 and S3
C18_Witness ==
    /\ pc = "resolved"
    /\ ScenarioB
    /\ args = Defaults
    /\ RowB("11").Original = RInt(60) /\ RowB("11").Mark = RInt(83)
    /\ RowB("12").Mark = Rat(97, 2) /\ RowB("13").Mark = Rat(97, 2)

\* C19: in every adapter, a rating of a subject who is not a member of the
\* submission's roster group never causes rejection, whatever its value
\* (valid, out of range, non-numeric or missing): a submission whose ratings
\* of the real members are complete and valid is accepted, the one rating is
\* dropped, and 'Non-group member(s) found' is among its warnings.
C19_NonMemberNeverRejects ==
    (last.kind = "read" /\ last.extra) =>
        /\ last.accepted
        /\ HasMsg(last.errs, "Non-group member(s) found")
        /\ \A i \in DOMAIN last.rows : last.rows[i].Subject \in SeqToSet(groups[last.rows[i].Group])

\* the marked rows that get_spreadsheets reads: those with a student number
RECURSIVE Numbered(_)
Numbered(marked) ==
    IF marked = <<>> THEN <<>>
    ELSE (IF Head(marked) # "" THEN <<Head(marked)>> ELSE <<>>) \o Numbered(Tail(marked))

\* the self-identification rule on the sequence of marked rows of the form
\* that was read last
SelfIdentification(marked) ==
    /\ (Len(marked) >= 2 \/ \E i \in DOMAIN marked : marked[i] # last.rater) =>
           /\ ~last.accepted
           /\ HasMsg(last.errs, "Incorrect or multiple respondents selected")
    /\ Len(marked) = 0 => ~last.accepted
    /\ last.accepted => marked = <<last.rater>>

Late(stamp) ==
    \/ stamp.due_at # 0 /\ stamp.submitted_at > stamp.due_at
    \/ stamp.due_at = 0 /\ stamp.cached_due_date # 0 /\ stamp.submitted_at > stamp.cached_due_date

\* the last submission came from a member of the quiz's group and is complete
FromMember ==
    /\ adapter \in {"quiz", "newquiz"} /\ last.quiz \in DOMAIN groups
    /\ last.kind \in {"skipped", "read", "kept"}
    /\ last.rater \in SeqToSet(groups[last.quiz])
    /\ last.stamp.workflow_state \in {"complete", "graded", "pending_review"}

\* C21: in both quiz adapters, a submission later than the due date (the
\* quiz's due_at, else the submission's cached due date) is rejected before
\* any of its answers is examined, whatever they are: it is on the invalid
\* list, no answer of it has left an error or a rating row; a submission at
\* or before the due date, or without a due date, passes the date check.
C21_LateRejectedUnread ==
    FromMember =>
        /\ Late(last.stamp) =>
               /\ last.kind = "skipped"
               /\ \E i \in DOMAIN invalid : invalid[i] = last.rater
               /\ \A i \in DOMAIN respondents : respondents[i] # last.rater
               /\ last.rater \notin DOMAIN errors
               /\ \A i \in DOMAIN summary_sheet : summary_sheet[i].Rater # last.rater
        /\ ~Late(last.stamp) =>
               /\ adapter = "newquiz" => last.kind \in {"kept", "read"}
               /\ (adapter = "quiz" /\ last.stamp.history) => last.kind = "read"

\* a late submission whose answers depart from the quiz, skipped
C21_Witness ==
    /\ FromMember /\ Late(last.stamp) /\ ~last.plain
    /\ last.kind = "skipped"
    /\ \E i \in DOMAIN invalid : invalid[i] = last.rater

\* C22: no single malformed submission aborts the run: in every adapter the
\* loop over the submissions goes on after a submission with a non-numeric or
\* empty rating, an unparsable choice label or an unknown group number, which
\* is recorded as rejected (read, not accepted, its rater on the invalid list).
C22_MalformedNeverAborts ==
    /\ pc = "load"
    /\ last.kind \notin {"crashed", "exit"}
    /\ (last.kind = "read" /\ ~last.accepted) => \E i \in DOMAIN invalid : invalid[i] = last.rater

\* C23: in every adapter, each rater on the returned invalid list has an
\* entry with at least one reason in the returned errors map, rejections
\* for lateness, wrong group, incomplete state or unexpected owner included.
C23_RejectedHaveReasons ==
    \A i \in DOMAIN invalid :
        /\ invalid[i] \in DOMAIN errors
        /\ errors[invalid[i]] # <<>>

\* the ratings x of the algebraic check, in halves: 0, 0.5, 1, ... MaxHalves / 2
MaxHalves == 14
OutOfRange == "Rating is outside of range 1-5"

\* C24: the bounding b(x) = round(max(min(x, 5), 1)) of the spreadsheet and
\* classic-quiz adapters leaves every integer of 1..5 as it is, without a
\* correction message; b(b(x)) = b(x); x <= y implies b(x) <= b(y);
\* b(6) = 5 and b(0) = 1; and a submission whose only fault is a rating
\* that bounding changes is accepted, with the bounded rating stored.
C24_BoundingLaws ==
    /\ \A k \in 1..5 : bounded_score(2 * k) = k
    /\ \A h \in 0..MaxHalves : bounded_score(2 * bounded_score(h)) = bounded_score(h)
    /\ \A h \in 0..MaxHalves : bounded_score(h) \in 1..5
    /\ \A x, y \in 0..MaxHalves : x <= y => bounded_score(x) <= bounded_score(y)
    /\ bounded_score(12) = 5 /\ bounded_score(0) = 1
    /\ (adapter \in {"sheet", "quiz"} /\ last.kind = "read") =>
        /\ last.changed = {} => ~HasMsg(last.errs, OutOfRange)
        /\ (\A i \in DOMAIN last.errs : last.errs[i].msg = OutOfRange) => last.accepted
        /\ \A i \in DOMAIN last.rows : last.rows[i].Rating \in 1..5

\* a form or a classic-quiz submission with the rating 6 for a member:
\* accepted with the warning, the rating stored as 5
C24_Witness ==
    /\ adapter \in {"sheet", "quiz"} /\ last.kind = "read"
    /\ last.changed # {} /\ last.accepted
    /\ HasMsg(last.errs, OutOfRange)
    /\ \E i \in DOMAIN last.rows : last.rows[i].Subject \in last.changed /\ last.rows[i].Rating = 5

\* C25: parse_marks_file_row never fails: whatever the row (an empty row and
\* a row of one column included), a row whose second column is absent or is
\* no float leaves the marks map as it is, and any other row adds exactly
\* the entry str(first column) -> mark.
C25_ParseNeverFails ==
    [][(pc = "marks" /\ marks_file # <<>>) =>
        LET row == Head(marks_file)
        IN  /\ pc' = "marks"
            /\ marks_file' = Tail(marks_file)
            /\ marks_map' = IF Len(row) < 2 \/ ~PyFloat(row[2]).ok THEN marks_map
                             ELSE Put(marks_map, row[1].s, PyFloat(row[2]).v)]_vars

\* the scores that step 2 gives to the subjects S of group g, added up
RECURSIVE SumScores(_, _, _)
SumScores(data, g, S) ==
    IF S = {} THEN RInt(0)
    ELSE LET x == CHOOSE y \in S : TRUE
         IN  RAdd(Score(data, g, x), SumScores(data, g, S \ {x}))

\* the groups with a row in the response summary
GroupsHeard == {summary_sheet[i].Group : i \in DOMAIN summary_sheet}
SubjectsOf(g) == {summary_sheet[i].Subject : i \in {j \in DOMAIN summary_sheet : summary_sheet[j].Group = g}}

\* C26: for every group with at least one accepted submission, the Scores
\* that steps 1-2 compute from the response summary sum to the group's
\* Members count (the mean Score is exactly 1), whatever the ratings and
\* however many members responded.
C26_ScoresSumToMembers ==
    \A g \in GroupsHeard :
        SumScores(summary_sheet, g, SubjectsOf(g)) = RInt(count_group_members(summary_sheet, g))

\* C27: every accepted submission contributes exactly one rating row per
\* member of its roster group: the response summary never holds two rows of
\* one rater about one subject, whether from a form that lists a member on
\* two rows or from two accepted submissions of one rater.
C27_OneRowPerMember ==
    /\ \A i, j \in DOMAIN summary_sheet :
           (summary_sheet[i].Rater = summary_sheet[j].Rater
               /\ summary_sheet[i].Subject = summary_sheet[j].Subject) => i = j
    /\ \A i, j \in DOMAIN respondents : respondents[i] = respondents[j] => i = j
    /\ (last.kind = "read" /\ last.accepted) =>
           \A g \in DOMAIN groups :
               last.rater \in SeqToSet(groups[g]) =>
                   /\ Len(last.rows) = Len(groups[g])
                   /\ {last.rows[i].Subject : i \in DOMAIN last.rows} = SeqToSet(groups[g])

\* C28: in every row of the response summary the rater is a roster member
\* of the row's group: a student of one group never gets ratings accepted
\* for the members of another group.
C28_RaterInRowGroup ==
    \A i \in DOMAIN summary_sheet :
        /\ summary_sheet[i].Group \in DOMAIN groups
        /\ summary_sheet[i].Rater \in SeqToSet(groups[summary_sheet[i].Group])

\* C29: for every group with at least one accepted submission, Members (step
\* 1) is the number of members of the group in the roster, 1 <= Raters <=
\* Members, and so Adjustment >= 1, equal to 1 exactly when every member of
\* the group has an accepted submission.
C29_RatersWithinMembers ==
    \A g \in GroupsHeard :
        /\ g \in DOMAIN groups
        /\ count_group_members(summary_sheet, g) = Len(groups[g])
        /\ 1 <= count_webpa_submissions(summary_sheet, g)
        /\ count_webpa_submissions(summary_sheet, g) <= count_group_members(summary_sheet, g)
        /\ RLe(RInt(1), webpa_adjustment_factor(summary_sheet, g))
        /\ webpa_adjustment_factor(summary_sheet, g) = RInt(1)
              <=> \A m \in SeqToSet(groups[g]) : \E i \in DOMAIN respondents : respondents[i] = m

\* C30: when no submission at all is accepted, the run stops with an error
\* before the response summary is saved: the calculation table is never
\* built and no Mark is produced for any subject; a run that goes past the
\* loading of the responses has at least one accepted submission.
C30_NoRespondentStops ==
    /\ [](pc \in {"loaded", "aggregated", "joined", "resolved", "saved"} => Len(respondents) >= 1)
    /\ [](Len(respondents) = 0 => response_data = <<>>)
    /\ [][(pc = "load" /\ seen' = DOMAIN groups /\ Len(respondents') = 0)
              => (pc' = "exit" /\ response_data' = <<>>)]_vars
    /\ [][pc = "exit" => pc' = "exit"]_vars

\* the only submission of the run was rejected, and the run has stopped
C30_Witness ==
    /\ pc = "exit" /\ seen = DOMAIN groups
    /\ respondents = <<>> /\ invalid = <<"21">>
    /\ summary_sheet = <<>> /\ response_data = <<>>

====
